---- MODULE Spec2Model ----
(***************************************************************************)
(* Model of sample_size_calculator.py: the z-score table, the sample-size  *)
(* formula with its finite-population correction, and the Streamlit script *)
(* that re-evaluates the formula for the current widget selection and for  *)
(* the three sensitivity sweeps.                                           *)
(*                                                                         *)
(* Python evaluates the formula in IEEE-754 binary64.  TLC has 32-bit      *)
(* integers only, so a float is modelled as sign * mantissa * 2^exponent   *)
(* with the mantissa an arbitrary-precision natural (a sequence of 15-bit  *)
(* limbs, least significant first), and every float operation is the      *)
(* exact rational result rounded to 53 bits, ties to even.                 *)
(***************************************************************************)
EXTENDS Integers, Sequences, FiniteSets, TLC

(***************************************************************************)
(* Arbitrary-precision naturals.                                           *)
(***************************************************************************)
LimbBits == 15

Base == 32768

Pow2[k \in 0..LimbBits] == IF k = 0 THEN 1 ELSE 2 * Pow2[k - 1]

\* Drop most-significant zero limbs; zero is the empty sequence.
RECURSIVE Norm(_)
Norm(a) ==
  IF a = <<>> THEN <<>>
  ELSE IF a[Len(a)] = 0 THEN Norm(SubSeq(a, 1, Len(a) - 1))
  ELSE a

RECURSIVE NatToBig(_)
NatToBig(k) ==
  IF k = 0 THEN <<>> ELSE <<k % Base>> \o NatToBig(k \div Base)

RECURSIVE BigToNat(_)
BigToNat(a) ==
  IF a = <<>> THEN 0 ELSE a[1] + Base * BigToNat(Tail(a))

Limb(a, i) == IF i >= 1 /\ i <= Len(a) THEN a[i] ELSE 0

\* -1, 0, 1 as a < b, a = b, a > b (both normalised).
RECURSIVE CmpFrom(_, _, _)
CmpFrom(a, b, i) ==
  IF i = 0 THEN 0
  ELSE IF a[i] < b[i] THEN -1
  ELSE IF a[i] > b[i] THEN 1
  ELSE CmpFrom(a, b, i - 1)

Cmp(a, b) ==
  IF Len(a) < Len(b) THEN -1
  ELSE IF Len(a) > Len(b) THEN 1
  ELSE CmpFrom(a, b, Len(a))

RECURSIVE AddFrom(_, _, _, _)
AddFrom(a, b, i, carry) ==
  IF i > Len(a) /\ i > Len(b)
  THEN (IF carry = 0 THEN <<>> ELSE <<carry>>)
  ELSE LET s == Limb(a, i) + Limb(b, i) + carry
       IN  <<s % Base>> \o AddFrom(a, b, i + 1, s \div Base)

Add(a, b) == AddFrom(a, b, 1, 0)

\* a - b for a >= b.
RECURSIVE SubFrom(_, _, _, _)
SubFrom(a, b, i, borrow) ==
  IF i > Len(a) THEN <<>>
  ELSE LET d == a[i] - Limb(b, i) - borrow
       IN  IF d < 0 THEN <<d + Base>> \o SubFrom(a, b, i + 1, 1)
           ELSE <<d>> \o SubFrom(a, b, i + 1, 0)

Sub(a, b) == Norm(SubFrom(a, b, 1, 0))

\* a * k for 0 <= k < Base.
RECURSIVE MulSmallFrom(_, _, _, _)
MulSmallFrom(a, k, i, carry) ==
  IF i > Len(a) THEN (IF carry = 0 THEN <<>> ELSE <<carry>>)
  ELSE LET t == a[i] * k + carry
       IN  <<t % Base>> \o MulSmallFrom(a, k, i + 1, t \div Base)

MulSmall(a, k) == IF k = 0 THEN <<>> ELSE MulSmallFrom(a, k, 1, 0)

\* a * Base^n.
ShiftLimbs(a, n) == IF a = <<>> THEN <<>> ELSE [i \in 1..n |-> 0] \o a

\* a * 2^s.
Shl(a, s) == ShiftLimbs(MulSmall(a, Pow2[s % LimbBits]), s \div LimbBits)

RECURSIVE MulFrom(_, _, _)
MulFrom(a, b, j) ==
  IF j > Len(b) THEN <<>>
  ELSE Add(ShiftLimbs(MulSmall(a, b[j]), j - 1), MulFrom(a, b, j + 1))

Mul(a, b) == MulFrom(a, b, 1)

RECURSIVE BitsOf(_)
BitsOf(k) == IF k = 0 THEN 0 ELSE 1 + BitsOf(k \div 2)

BitLen(a) ==
  IF a = <<>> THEN 0 ELSE LimbBits * (Len(a) - 1) + BitsOf(a[Len(a)])

IsOdd(a) == a # <<>> /\ a[1] % 2 = 1

Min2(x, y) == IF x < y THEN x ELSE y

(***************************************************************************)
(* Long division, one 15-bit quotient limb per step.  The divisor b has    *)
(* its top bit set (see DivMod), so the quotient limb estimated from the   *)
(* leading limbs is at most two too large and is corrected downwards.      *)
(***************************************************************************)
\* The estimate of the next quotient limb of r by b.
QHat(r, b) ==
  Min2((Limb(r, Len(b) + 1) * Base + Limb(r, Len(b))) \div b[Len(b)], Base - 1)

\* <<q, r - q * b>> for the largest q <= qd with q * b <= r.
RECURSIVE FixDigit(_, _, _)
FixDigit(r, b, qd) ==
  IF Cmp(MulSmall(b, qd), r) = 1 THEN FixDigit(r, b, qd - 1)
  ELSE <<qd, Sub(r, MulSmall(b, qd))>>

DivStep(r, b) == FixDigit(r, b, QHat(r, b))

\* Divide the limbs a[i], ..., a[1] into the remainder of the step before,
\* qr = <<quotient limb, remainder>>: the quotient limbs, most significant
\* first, followed by the final remainder.
RECURSIVE DivFrom(_, _, _, _)
DivFrom(a, b, i, qr) ==
  IF i = 0 THEN qr
  ELSE <<qr[1]>> \o DivFrom(a, b, i - 1, DivStep(Norm(<<a[i]>> \o qr[2]), b))

\* The result of DivFrom as quotient and remainder.
Quotient(d) ==
  [q |-> Norm([j \in 1..(Len(d) - 1) |-> d[Len(d) - j]]), r |-> d[Len(d)]]

\* The leading Len(b) - 1 limbs of a are below b and start as the remainder.
DivLimbs(a, b, i0) == Quotient(DivFrom(a, b, i0, <<0, SubSeq(a, i0 + 1, Len(a))>>))

\* Quotient q of a by b > 0, and the remainder r (scaled by a power of two:
\* only r = <<>>, "b divides a", is read), for b with its top bit set.
DivNormalised(a, b) ==
  DivLimbs(a, b, IF Len(a) >= Len(b) THEN Len(a) - Len(b) + 1 ELSE 0)

DivMod(a, b) ==
  DivNormalised(MulSmall(a, Pow2[LimbBits - BitsOf(b[Len(b)])]),
                MulSmall(b, Pow2[LimbBits - BitsOf(b[Len(b)])]))

\* floor(a / 2^k).
Shr(a, k) ==
  LET d  == k \div LimbBits
      t  == k % LimbBits
      hi == SubSeq(a, d + 1, Len(a))
  IN  Norm([i \in 1..Len(hi) |->
              (hi[i] \div Pow2[t]) + (Limb(hi, i + 1) % Pow2[t]) * Pow2[LimbBits - t]])

\* Bit j of a (bit 0 is the least significant).
Bit(a, j) == (Limb(a, j \div LimbBits + 1) \div Pow2[j % LimbBits]) % 2

\* Whether any of the bits 0 .. j-1 of a is set.
LowBitsSet(a, j) ==
  \/ \E i \in 1..Min2(j \div LimbBits, Len(a)) : a[i] # 0
  \/ Limb(a, j \div LimbBits + 1) % Pow2[j % LimbBits] # 0

(***************************************************************************)
(* IEEE-754 binary64 values: sg in {-1, 0, 1}, magnitude m * 2^e with m a  *)
(* natural of at most 53 bits (2^53 itself after a carry).  The exponent   *)
(* range and subnormals are left out: every magnitude the formula produces *)
(* here lies between 2^-60 and 2^60.                                       *)
(***************************************************************************)
MantBits == 53

One == <<1>>

FZero == [sg |-> 0, m |-> <<>>, e |-> 0]

\* int -> float conversion (exact below 2^53).
FromInt(k) ==
  IF k = 0 THEN FZero
  ELSE IF k < 0 THEN [sg |-> -1, m |-> NatToBig(-k), e |-> 0]
  ELSE [sg |-> 1, m |-> NatToBig(k), e |-> 0]

\* sg * a * 2^ex rounded to 53 significant bits, ties to even (a > 0).
RoundNat(sg, a, ex) ==
  LET k == BitLen(a) - MantBits
  IN  IF k <= 0 THEN [sg |-> sg, m |-> a, e |-> ex]
      ELSE LET q  == Shr(a, k)
               up == Bit(a, k - 1) = 1 /\ (LowBitsSet(a, k - 1) \/ IsOdd(q))
           IN  [sg |-> sg, m |-> IF up THEN Add(q, One) ELSE q, e |-> ex + k]

Max0(k) == IF k > 0 THEN k ELSE 0

\* The floor quotient doubled, plus a sticky last bit for the remainder.
Sticky(d) == Add(MulSmall(d.q, 2), IF d.r = <<>> THEN <<>> ELSE One)

\* sg * (a / b) * 2^ex rounded to a float, from the floor of a * 2^s / b.
RoundScaled(sg, a, b, ex, s) ==
  RoundNat(sg, Sticky(DivMod(Shl(a, Max0(s)), Shl(b, Max0(-s)))), ex - s - 1)

\* sg * (a / b) * 2^ex rounded to a float, for naturals a > 0, b > 0: the
\* floor quotient is taken to 55 or 56 bits.
RoundRat(sg, a, b, ex) ==
  RoundScaled(sg, a, b, ex, MantBits + 2 - (BitLen(a) - BitLen(b)))

FMul(x, y) ==
  IF x.sg = 0 \/ y.sg = 0 THEN FZero
  ELSE RoundNat(x.sg * y.sg, Mul(x.m, y.m), x.e + y.e)

\* x / y for y # 0 (the callers raise ZeroDivisionError on y = 0 first).
FDiv(x, y) ==
  IF x.sg = 0 THEN FZero
  ELSE RoundRat(x.sg * y.sg, x.m, y.m, x.e - y.e)

FNeg(x) == [x EXCEPT !.sg = -x.sg]

\* xs * xm * 2^ex + ys * ym * 2^ex rounded to a float.
AddAligned(xs, xm, ys, ym, ex) ==
  IF xs # ys /\ xm = ym THEN FZero
  ELSE RoundNat(IF xs = ys \/ Cmp(xm, ym) = 1 THEN xs ELSE ys,
                IF xs = ys THEN Add(xm, ym)
                ELSE IF Cmp(xm, ym) = 1 THEN Sub(xm, ym) ELSE Sub(ym, xm),
                ex)

FAdd(x, y) ==
  IF x.sg = 0 THEN y
  ELSE IF y.sg = 0 THEN x
  ELSE AddAligned(x.sg, Shl(x.m, x.e - Min2(x.e, y.e)),
                  y.sg, Shl(y.m, y.e - Min2(x.e, y.e)), Min2(x.e, y.e))

FSub(x, y) == FAdd(x, FNeg(y))

\* The float a decimal literal or a quotient of two ints denotes: num / den
\* correctly rounded.
FromRat(num, den) ==
  IF num = 0 THEN FZero
  ELSE RoundRat(1, NatToBig(num), NatToBig(den), 0)

\* math.ceil of a float, as a Python int.
Ceil(x) ==
  IF x.sg = 0 THEN 0
  ELSE IF x.e >= 0 THEN x.sg * BigToNat(Shl(x.m, x.e))
  ELSE LET fl == BigToNat(Shr(x.m, -x.e))
       IN  IF x.sg = -1 THEN -fl
           ELSE IF LowBitsSet(x.m, -x.e) THEN fl + 1
           ELSE fl

(***************************************************************************)
(* Values of the program.  A confidence level is held in tenths of a       *)
(* percent (999 is 99.9 %), a margin of error in tenths of a percent (47   *)
(* is 4.7 %), a proportion in hundredths (20 is 0.2); population_size is   *)
(* <<>> for None and <<N>> for the int N.                                  *)
(***************************************************************************)
None == <<>>

Returned(v) == [raised |-> "", value |-> v]

Raised(exc) == [raised |-> exc, value |-> 0]

\* The float of a margin of error given in tenths of a percent.
MarginValue(tenths) == FromRat(tenths, 10)

\* The float of a proportion given in hundredths.
ProportionValue(hundredths) == FromRat(hundredths, 100)

\* The decimal literals of the z_scores dict, in thousandths.
ZThousandths == (900 :> 1645) @@ (950 :> 1960) @@ (990 :> 2576) @@ (999 :> 3291)

\* The dict of get_z_score: confidence level -> float.
z_scores == [c \in DOMAIN ZThousandths |-> FromRat(ZThousandths[c], 1000)]

\* get_z_score with a fallback for a missing key: z_scores.get(level, 1.96).
get_z_score_default(confidence_level) ==
  IF confidence_level \in DOMAIN ZThousandths
  THEN Returned(z_scores[confidence_level])
  ELSE Returned(z_scores[950])

\* z_scores[confidence_level]: a missing key raises KeyError.
get_z_score(confidence_level) ==
  IF confidence_level \in DOMAIN ZThousandths
  THEN Returned(z_scores[confidence_level])
  ELSE Raised("KeyError")

\* Python truth value of population_size: None and 0 are false.
Truthy(population_size) ==
  population_size # None /\ population_size[1] # 0

\* x ** 2.
FSquare(x) == FMul(x, x)

\* The frame of a call: the exception raised ("" for none), the locals n
\* and n_adjusted (FZero while unassigned) and the int returned.
Frame(raised, n, n_adjusted, value) ==
  [raised |-> raised, n |-> n, n_adjusted |-> n_adjusted, value |-> value]

\* The divisor with the sign of its fraction slipped: 1 - (n - 1) / N.
CorrectionDivisorMinus(n, population_size) ==
  FSub(FromInt(1), FDiv(FSub(n, FromInt(1)), FromInt(population_size[1])))

\* 1 + (n - 1) / population_size, the divisor of line 91.
CorrectionDivisor(n, population_size) ==
  FAdd(FromInt(1), FDiv(FSub(n, FromInt(1)), FromInt(population_size[1])))

\* Line 92: return math.ceil(n_adjusted).
ReturnAdjusted(n, n_adjusted) == Frame("", n, n_adjusted, Ceil(n_adjusted))

\* Line 91: n_adjusted = n / divisor.
Adjust(n, divisor) ==
  IF divisor.sg = 0 THEN Frame("ZeroDivisionError", n, FZero, 0)
  ELSE ReturnAdjusted(n, FDiv(n, divisor))

\* Lines 90-94: the correction if population_size is true, else math.ceil(n).
CorrectOrReturn(n, population_size) ==
  IF Truthy(population_size)
  THEN Adjust(n, CorrectionDivisor(n, population_size))
  ELSE Frame("", n, FZero, Ceil(n))

\* Lines 83-87: q = 1 - p and n = (z**2 * p * q) / e**2, e2 being e**2.
Estimate(z, p, e2, population_size) ==
  IF e2.sg = 0 THEN Frame("ZeroDivisionError", FZero, FZero, 0)
  ELSE CorrectOrReturn(FDiv(FMul(FMul(FSquare(z), p), FSub(FromInt(1), p)), e2),
                       population_size)

\* Lines 81-82: z = get_z_score(confidence_level) went well or raised;
\* e = margin_of_error / 100.
WithZScore(zr, margin_of_error, population_proportion, population_size) ==
  IF zr.raised # "" THEN Frame(zr.raised, FZero, FZero, 0)
  ELSE Estimate(zr.value, population_proportion,
                FSquare(FDiv(margin_of_error, FromInt(100))), population_size)

\* margin_of_error and population_proportion are floats.
calculate_sample_size_frame(confidence_level, margin_of_error, population_proportion, population_size) ==
  WithZScore(get_z_score(confidence_level), margin_of_error,
             population_proportion, population_size)

\* What a frame returns or raises.
Outcome(f) == [raised |-> f.raised, value |-> f.value]

\* What a call returns or raises.
calculate_sample_size(confidence_level, margin_of_error, population_proportion, population_size) ==
  Outcome(calculate_sample_size_frame(confidence_level, margin_of_error,
                                      population_proportion, population_size))

(***************************************************************************)
(* The widgets (lines 28-67) and the sweep grids (lines 143, 187, 223).    *)
(***************************************************************************)
\* st.selectbox options; index=1 (zero-based) is preselected.
ConfidenceOptions == <<900, 950, 990, 999>>

ConfidenceDefaultIndex == 1

\* Margin slider: 0.5 .. 10.0, value 5.0, step 0.5 (tenths of a percent).
MarginMin == 5

MarginMax == 100

MarginDefault == 50

MarginStep == 5

\* Proportion slider: 0.01 .. 0.99, value 0.5, step 0.01 (hundredths).
ProportionMin == 1

ProportionMax == 99

ProportionDefault == 50

\* st.number_input: min_value=1, value=10000.
PopulationMin == 1

PopulationDefault == 10000

\* margins = [i/2 for i in range(1, 21)], in tenths of a percent.
margins == [i \in 1..20 |-> 5 * i]

\* confidence_levels = [90, 95, 99, 99.9].
confidence_levels == <<900, 950, 990, 999>>

\* proportions = [i/100 for i in range(5, 100, 5)], in hundredths.
proportions == [k \in 1..19 |-> 5 * k]

(***************************************************************************)
(* Bounds of the exploration.                                              *)
(***************************************************************************)
\* Populations 1 .. MaxSmallPopulation are entered (and, by a direct caller,
\* also -MaxSmallPopulation .. 0), besides the ones listed below.
MaxSmallPopulation == 1

\* Slider positions the user moves to.
SliderMargins == {MarginMin, MarginDefault, 60}

SliderProportions == {ProportionMin, ProportionDefault}

\* Population sizes typed into the number input.
PopulationEntries == (PopulationMin..MaxSmallPopulation) \cup {99, PopulationDefault}

\* Arguments of a direct caller of the two functions: the widget values and
\* values no widget yields (an unlisted level, 0 % and margins off the slider
\* grid or beyond it, p = 0 and p = 1, a population below 1).
CallerLevels == {900, 950, 990, 999, 800, 975}

CallerMargins == {0, 5, 30, 47, 50, 60, 100, 200, 500, 1000}

CallerProportions == {0, 1, 3, 10, 20, 50, 80, 90, 97, 99, 100}

CallerPopulations ==
  {None} \cup {<<k>> : k \in (-MaxSmallPopulation)..MaxSmallPopulation}
         \cup {<<99>>, <<PopulationDefault>>}

(***************************************************************************)
(* State: the four inputs, the position in the script (or in the caller),  *)
(* and what has been computed so far.                                      *)
(***************************************************************************)
VARIABLES confidence_level, margin_of_error, population_proportion,
          population_size, pc, z_score, local_n, local_n_adjusted, sample_size,
          sample_sizes_margin, sample_sizes_conf, sample_sizes_prop

inputs == <<confidence_level, margin_of_error, population_proportion, population_size>>

sweeps == <<sample_sizes_margin, sample_sizes_conf, sample_sizes_prop>>

locals == <<z_score, local_n, local_n_adjusted>>

vars == <<inputs, pc, locals, sample_size, sweeps>>

\* A name the run has not bound yet.
Unset == Raised("unset")

(***************************************************************************)
(* Spec: the Streamlit script.  Every widget change reruns the script from *)
(* the top with fresh module-level names; the run then goes through the    *)
(* calculation (line 97) and the three sweep loops, one iteration a step.  *)
(***************************************************************************)
Rerun ==
  /\ pc' = "calculate"
  /\ sample_size' = Unset
  /\ z_score' = Unset
  /\ sample_sizes_margin' = <<>>
  /\ sample_sizes_conf' = <<>>
  /\ sample_sizes_prop' = <<>>
  /\ UNCHANGED <<local_n, local_n_adjusted>>

Init ==
  /\ confidence_level = ConfidenceOptions[ConfidenceDefaultIndex + 1]
  /\ margin_of_error = MarginDefault
  /\ population_proportion = ProportionDefault
  /\ population_size = None
  /\ pc = "calculate"
  /\ sample_size = Unset
  /\ z_score = Unset
  /\ local_n = FZero
  /\ local_n_adjusted = FZero
  /\ sample_sizes_margin = <<>>
  /\ sample_sizes_conf = <<>>
  /\ sample_sizes_prop = <<>>

SelectConfidence ==
  /\ \E i \in DOMAIN ConfidenceOptions : confidence_level' = ConfidenceOptions[i]
  /\ UNCHANGED <<margin_of_error, population_proportion, population_size>>
  /\ Rerun

SlideMargin ==
  /\ \E m \in SliderMargins :
       /\ MarginMin <= m /\ m <= MarginMax /\ (m - MarginMin) % MarginStep = 0
       /\ margin_of_error' = m
  /\ UNCHANGED <<confidence_level, population_proportion, population_size>>
  /\ Rerun

SlideProportion ==
  /\ \E h \in SliderProportions :
       /\ ProportionMin <= h /\ h <= ProportionMax
       /\ population_proportion' = h
  /\ UNCHANGED <<confidence_level, margin_of_error, population_size>>
  /\ Rerun

\* The checkbox: unchecked leaves population_size = None, checked shows the
\* number input with its default value.
ToggleFinitePopulation ==
  /\ population_size' = IF population_size = None THEN <<PopulationDefault>> ELSE None
  /\ UNCHANGED <<confidence_level, margin_of_error, population_proportion>>
  /\ Rerun

EnterPopulation ==
  /\ population_size # None
  /\ \E k \in PopulationEntries : k >= PopulationMin /\ population_size' = <<k>>
  /\ UNCHANGED <<confidence_level, margin_of_error, population_proportion>>
  /\ Rerun

\* An exception ends the run.
After(result, next) == IF result.raised # "" THEN "error" ELSE next

\* Lines 97-102, and the z-score shown with the formula (lines 122, 131).
Show(size) ==
  /\ sample_size' = size
  /\ z_score' = IF size.raised = "" THEN get_z_score(confidence_level) ELSE z_score
  /\ pc' = After(size, "tab1")

Calculate ==
  /\ pc = "calculate"
  /\ Show(calculate_sample_size(confidence_level, MarginValue(margin_of_error),
                                ProportionValue(population_proportion), population_size))
  /\ UNCHANGED <<inputs, local_n, local_n_adjusted, sweeps>>

\* sizes.append(size), unless the call raised.
Appended(sizes, size) == IF size.raised = "" THEN Append(sizes, size.value) ELSE sizes

\* Where the run is after iteration i of the loop over grid.
LoopNext(size, i, grid, here, next) == After(size, IF i = Len(grid) THEN next ELSE here)

\* The loop of tab1 passing the slider's margin_of_error instead of margin.
MarginSweepSizeOfSlider(i) ==
  calculate_sample_size(confidence_level, MarginValue(margin_of_error),
                        ProportionValue(population_proportion), population_size)

\* The size appended by iteration i of the loop of tab1 (lines 146-153).
MarginSweepSize(i) ==
  calculate_sample_size(confidence_level, MarginValue(margins[i]),
                        ProportionValue(population_proportion), population_size)

MarginSweepAppend(i, size) ==
  /\ sample_sizes_margin' = Appended(sample_sizes_margin, size)
  /\ pc' = LoopNext(size, i, margins, "tab1", "tab2")

MarginSweepStep ==
  /\ pc = "tab1"
  /\ MarginSweepAppend(Len(sample_sizes_margin) + 1, MarginSweepSize(Len(sample_sizes_margin) + 1))
  /\ UNCHANGED <<inputs, locals, sample_size, sample_sizes_conf, sample_sizes_prop>>

\* The size appended by iteration i of the loop of tab2 (lines 190-197).
ConfidenceSweepSize(i) ==
  calculate_sample_size(confidence_levels[i], MarginValue(margin_of_error),
                        ProportionValue(population_proportion), population_size)

ConfidenceSweepAppend(i, size) ==
  /\ sample_sizes_conf' = Appended(sample_sizes_conf, size)
  /\ pc' = LoopNext(size, i, confidence_levels, "tab2", "tab3")

ConfidenceSweepStep ==
  /\ pc = "tab2"
  /\ ConfidenceSweepAppend(Len(sample_sizes_conf) + 1, ConfidenceSweepSize(Len(sample_sizes_conf) + 1))
  /\ UNCHANGED <<inputs, locals, sample_size, sample_sizes_margin, sample_sizes_prop>>

\* The size appended by iteration i of the loop of tab3 (lines 226-233).
ProportionSweepSize(i) ==
  calculate_sample_size(confidence_level, MarginValue(margin_of_error),
                        ProportionValue(proportions[i]), population_size)

ProportionSweepAppend(i, size) ==
  /\ sample_sizes_prop' = Appended(sample_sizes_prop, size)
  /\ pc' = LoopNext(size, i, proportions, "tab3", "done")

ProportionSweepStep ==
  /\ pc = "tab3"
  /\ ProportionSweepAppend(Len(sample_sizes_prop) + 1, ProportionSweepSize(Len(sample_sizes_prop) + 1))
  /\ UNCHANGED <<inputs, locals, sample_size, sample_sizes_margin, sample_sizes_conf>>

Next ==
  \/ SelectConfidence
  \/ SlideMargin
  \/ SlideProportion
  \/ ToggleFinitePopulation
  \/ EnterPopulation
  \/ Calculate
  \/ MarginSweepStep
  \/ ConfidenceSweepStep
  \/ ProportionSweepStep

Spec == Init /\ [][Next]_vars

(***************************************************************************)
(* SpecCalc: the two functions called directly, one call each, on          *)
(* arguments drawn from the Caller sets.                                   *)
(***************************************************************************)
InitCalc ==
  /\ confidence_level \in CallerLevels
  /\ margin_of_error \in CallerMargins
  /\ population_proportion \in CallerProportions
  /\ population_size \in CallerPopulations
  /\ pc = "ready"
  /\ sample_size = Unset
  /\ z_score = Unset
  /\ local_n = FZero
  /\ local_n_adjusted = FZero
  /\ sample_sizes_margin = <<>>
  /\ sample_sizes_conf = <<>>
  /\ sample_sizes_prop = <<>>

CallGetZScore ==
  /\ pc = "ready"
  /\ z_score' = get_z_score(confidence_level)
  /\ pc' = "looked"
  /\ UNCHANGED <<inputs, local_n, local_n_adjusted, sample_size, sweeps>>

\* The frame of the call as the three variables that hold it.
Bind(f) ==
  /\ sample_size' = Outcome(f)
  /\ local_n' = f.n
  /\ local_n_adjusted' = f.n_adjusted

CallCalculate ==
  /\ pc = "looked"
  /\ Bind(calculate_sample_size_frame(confidence_level, MarginValue(margin_of_error),
            ProportionValue(population_proportion), population_size))
  /\ pc' = "returned"
  /\ UNCHANGED <<inputs, z_score, sweeps>>

NextCalc == CallGetZScore \/ CallCalculate

SpecCalc == InitCalc /\ [][NextCalc]_vars

(***************************************************************************)
(* The real-valued quantities the properties speak of, as exact rationals. *)
(* With z in thousandths (zt), the margin in tenths of a percent (mt) and  *)
(* p in hundredths (ph),                                                   *)
(*   n0 = zt^2 * ph * (100 - ph) / (10^4 * mt^2),                          *)
(*   n_adj = n0 * N / (N + n0 - 1).                                        *)
(***************************************************************************)
N0Num(level, mt, ph) ==
  Mul(NatToBig(ZThousandths[level] * ZThousandths[level]), NatToBig(ph * (100 - ph)))

N0Den(mt) == Mul(NatToBig(10000), NatToBig(mt * mt))

\* ceil(a / b) of naturals, b > 0.
CeilOf(d) == BigToNat(d.q) + (IF d.r = <<>> THEN 0 ELSE 1)

CeilDiv(a, b) == CeilOf(DivMod(a, b))

CeilN0(level, mt, ph) == CeilDiv(N0Num(level, mt, ph), N0Den(mt))

CeilAdjusted(level, mt, ph, N) ==
  CeilDiv(Mul(N0Num(level, mt, ph), NatToBig(N)),
          Sub(Add(Mul(NatToBig(N), N0Den(mt)), N0Num(level, mt, ph)), N0Den(mt)))

\* n0 >= 1 and N >= n0.
N0AtLeastOne(level, mt, ph) == Cmp(N0Num(level, mt, ph), N0Den(mt)) >= 0

N0AtMost(level, mt, ph, N) ==
  Cmp(Mul(NatToBig(N), N0Den(mt)), N0Num(level, mt, ph)) >= 0

\* x <= y of two floats.
FLe(x, y) == FSub(x, y).sg <= 0

\* The argument ranges the properties quantify over.
Supported == confidence_level \in {900, 950, 990, 999}

InRange == margin_of_error > 0 /\ 0 < population_proportion /\ population_proportion < 100

Absent == population_size = None

Present == population_size # None

AtLeastOne == Present /\ population_size[1] >= 1

HasReturned == pc = "returned"

(***************************************************************************)
(* Properties of the two functions, stated over SpecCalc.                  *)
(***************************************************************************)
\* C1: without a population size, a supported level, a margin > 0 and
\* 0 < p < 1, calculate_sample_size returns exactly ceil(n0), the least
\* integer >= z^2 p (1 - p) / (margin/100)^2; in particular (95, 5, 0.5)
\* gives 385 and (99, 3, 0.5) gives 1842.
C1_ExactCeilingWithoutPopulation ==
  (HasReturned /\ Supported /\ InRange /\ Absent)
    => /\ sample_size = Returned(CeilN0(confidence_level, margin_of_error,
                                        population_proportion))
       /\ (confidence_level = 950 /\ margin_of_error = 50 /\ population_proportion = 50)
            => sample_size = Returned(385)
       /\ (confidence_level = 990 /\ margin_of_error = 30 /\ population_proportion = 50)
            => sample_size = Returned(1842)

\* C2: with a population size N >= 1 (and the same argument ranges),
\* calculate_sample_size returns exactly ceil(n0 / (1 + (n0 - 1) / N)); in
\* particular (95, 5, 0.5, N = 10000) gives 370.
C2_ExactCeilingWithPopulation ==
  (HasReturned /\ Supported /\ InRange /\ AtLeastOne)
    => /\ sample_size = Returned(CeilAdjusted(confidence_level, margin_of_error,
                                              population_proportion, population_size[1]))
       /\ (confidence_level = 950 /\ margin_of_error = 50 /\ population_proportion = 50
             /\ population_size = <<PopulationDefault>>)
            => sample_size = Returned(370)

\* C3: get_z_score is the four-entry table 90 -> 1.645, 95 -> 1.96,
\* 99 -> 2.576, 99.9 -> 3.291, and for any other level it raises instead of
\* returning a value.
C3_ZScoreTable ==
  pc \in {"looked", "returned"} =>
    /\ confidence_level = 900 => z_score = Returned(FromRat(1645, 1000))
    /\ confidence_level = 950 => z_score = Returned(FromRat(196, 100))
    /\ confidence_level = 990 => z_score = Returned(FromRat(2576, 1000))
    /\ confidence_level = 999 => z_score = Returned(FromRat(3291, 1000))
    /\ ~Supported => z_score.raised # ""

\* C3 has happened: the lookup of 99.9 has returned, and it is not the value
\* of another entry.
C3_Witness ==
  /\ pc = "looked"
  /\ confidence_level = 999
  /\ z_score.raised = ""
  /\ z_score.value # FromRat(2576, 1000)

\* C4: calculate_sample_size raises, and returns no sample size, whenever
\* margin = 0 or p = 0 or p = 1, for every supported level, with or without
\* a population size.
C4_DegenerateInputsFail ==
  (HasReturned /\ Supported /\ (Absent \/ AtLeastOne)
     /\ (margin_of_error = 0 \/ population_proportion = 0 \/ population_proportion = 100))
    => sample_size.raised # ""

\* C5: with a population size that is present but below 1 (0 or negative),
\* calculate_sample_size raises: it returns no sample size for it and does
\* not treat it as absent.
C5_PopulationBelowOneFails ==
  (HasReturned /\ Supported /\ InRange /\ Present /\ population_size[1] < 1)
    => sample_size.raised # ""

\* C6: for a supported level, a margin > 0 and 0 < p < 1 the returned value
\* is an integer >= 1, with or without a population size; and with a
\* population size N >= n0 the returned value is at most N.
C6_PositiveAndAtMostPopulation ==
  (HasReturned /\ Supported /\ InRange /\ (Absent \/ AtLeastOne))
    => /\ sample_size.raised = ""
       /\ sample_size.value >= 1
       /\ (AtLeastOne /\ N0AtMost(confidence_level, margin_of_error,
                                  population_proportion, population_size[1]))
            => sample_size.value <= population_size[1]

C8_NonIncreasingInMargin ==
  (HasReturned /\ Supported /\ InRange /\ (Absent \/ AtLeastOne)
     /\ sample_size.raised = "")
    => \A m2 \in CallerMargins :
         m2 > margin_of_error =>
           calculate_sample_size(confidence_level, MarginValue(m2),
                                 ProportionValue(population_proportion),
                                 population_size).value <= sample_size.value

(***************************************************************************)
(* Properties seen in the sweeps of the script, stated over Spec.          *)
(***************************************************************************)
\* C9: for a fixed level, margin > 0 and population size (absent or N >= 1)
\* the result as a function of p is largest at p = 0.5, is the same at p and
\* at 1 - p, and does not increase as p moves away from 0.5; stated on the
\* proportion sweep, whose point i is p = 0.05 i and point 10 is p = 0.5.
C9_PeakSymmetryMonotone ==
  pc = "done" =>
    /\ \A i \in 1..19 : sample_sizes_prop[i] <= sample_sizes_prop[10]
    /\ \A i \in 1..19 : sample_sizes_prop[i] = sample_sizes_prop[20 - i]
    /\ \A i \in 1..9 : sample_sizes_prop[i] <= sample_sizes_prop[i + 1]
    /\ \A i \in 10..18 : sample_sizes_prop[i] >= sample_sizes_prop[i + 1]

\* C10: each sweep yields one sample size per grid point in ascending order
\* of the swept parameter, the other inputs being the current selection: 20
\* points for the margins 0.5, 1.0, ..., 10.0, 4 for the levels 90, 95, 99,
\* 99.9 and 19 for the proportions 0.05, 0.10, ..., 0.95; result i of a
\* sweep is calculate_sample_size at grid value i.
C10_SweepsFollowTheirGrids ==
  pc = "done" =>
    /\ Len(sample_sizes_margin) = 20
    /\ Len(sample_sizes_conf) = 4
    /\ Len(sample_sizes_prop) = 19
    /\ \A i \in 1..20 :
         sample_sizes_margin[i] =
           calculate_sample_size(confidence_level, FromRat(i, 2),
                                 ProportionValue(population_proportion),
                                 population_size).value
    /\ \A i \in 1..4 :
         sample_sizes_conf[i] =
           calculate_sample_size(<<900, 950, 990, 999>>[i],
                                 MarginValue(margin_of_error),
                                 ProportionValue(population_proportion),
                                 population_size).value
    /\ \A i \in 1..19 :
         sample_sizes_prop[i] =
           calculate_sample_size(confidence_level, MarginValue(margin_of_error),
                                 FromRat(5 * i, 100), population_size).value

\* C10 has happened: a run over a population of 99 at a margin of 6 % has
\* finished its three sweeps, and the margin sweep is not constant.
C10_Witness ==
  /\ pc = "done"
  /\ population_size = <<99>>
  /\ margin_of_error = 60
  /\ Len(sample_sizes_margin) = 20
  /\ Len(sample_sizes_conf) = 4
  /\ Len(sample_sizes_prop) = 19
  /\ sample_sizes_margin[1] > sample_sizes_margin[20]
  /\ sample_sizes_conf[1] < sample_sizes_conf[4]
====
